---- MODULE Spec2Model ----
(***************************************************************************)
(* Model of server/main2.py: a FastAPI service that answers questions      *)
(* about a manual by retrieval-augmented generation.                       *)
(*                                                                         *)
(* A text is a sequence of Unicode code points (Python str); len() of a    *)
(* text is Len of the sequence.                                            *)
(***************************************************************************)
EXTENDS Integers, Sequences, FiniteSets, TLC

\* ------------------------------------------------------------------ bounds
\* A document of the text pipeline has at most MaxTokens tokens.
MaxTokens == 4
\* The served manual has at most MaxParas paragraphs of 260 characters.
MaxParas == 4
\* The embedding model is one of the functions Encode(0..MaxModel, _), whose
\* vectors have coordinates in 0..MaxCoord.
MaxModel == 2
MaxCoord == 2
\* The build alone is also run on manuals of up to MaxBuildParas paragraphs.
MaxBuildParas == 11
\* At most MaxAsk POST /ask and MaxRoot GET / requests arrive.
MaxAsk == 2
MaxRoot == 1

\* ------------------------------------------------------- program constants
CHUNK_SIZE == 500
CHUNK_OVERLAP == 50
\* "\n", the character extract_pdf_text appends after each page
NL == 10
MODEL_NAME == "llama3.2:3b"
\* Faulty variant: one result too many is asked for
FourResults == 3 + 1

\* n_results of collection.query
N_RESULTS == 3
\* "temperature": 0.2, as the fraction 2/10
TEMPERATURE == <<2, 10>>
MAX_TOKENS == 500

\* --------------------------------------------------------------- the loops
\* A Python `for i in range(lo, hi + 1): st = Step(st, i)`.  The range is
\* halved so that the evaluation depth is logarithmic; the left half is
\* evaluated (its `n` field read) before the right half starts from it.
RECURSIVE ForRange(_, _, _, _)
ForRange(Step(_, _), st, lo, hi) ==
    IF lo > hi THEN st
    ELSE IF lo = hi THEN Step(st, lo)
    ELSE LET mid == (lo + hi) \div 2
             left == ForRange(Step, st, lo, mid)
         IN  IF left.n >= 0 THEN ForRange(Step, left, mid + 1, hi) ELSE left

\* A Python `while Cond(st): st = Body(st)` that runs at most 2^k times.
RECURSIVE WhileLoop(_, _, _, _)
WhileLoop(Cond(_), Body(_), st, k) ==
    IF ~Cond(st) THEN st
    ELSE IF k = 0 THEN Body(st)
    ELSE LET half == WhileLoop(Cond, Body, st, k - 1)
         IN  IF half.n >= 0 THEN WhileLoop(Cond, Body, half, k - 1) ELSE half

\* The least k with 2^k >= m.
RECURSIVE Log2Up(_)
Log2Up(m) == IF m <= 1 THEN 0 ELSE 1 + Log2Up((m + 1) \div 2)

\* ------------------------------------------------------------------- texts
\* str.isspace() for one character.
IsSpace(c) ==
    c \in (9..13) \cup (28..32) \cup {133, 160, 5760} \cup (8192..8202)
          \cup {8232, 8233, 8239, 8287, 12288}

\* str.strip()
Strip(t) ==
    LET keep == {i \in 1..Len(t) : ~IsSpace(t[i])}
    IN  IF keep = {} THEN <<>>
        ELSE LET first == CHOOSE i \in keep : \A j \in keep : i <= j
                 last == CHOOSE i \in keep : \A j \in keep : j <= i
             IN  SubSeq(t, first, last)

\* "".join(parts[lo..hi]) for a separator sep.
RECURSIVE JoinRange(_, _, _, _)
JoinRange(parts, sep, lo, hi) ==
    IF lo > hi THEN <<>>
    ELSE IF lo = hi THEN parts[lo]
    ELSE LET mid == (lo + hi) \div 2
         IN  JoinRange(parts, sep, lo, mid) \o sep \o JoinRange(parts, sep, mid + 1, hi)

\* sep.join(parts)
Join(parts, sep) == JoinRange(parts, sep, 1, Len(parts))

\* ---------------------------------------------------------- Text Extractor
\* Faulty variant: the newline goes between the pages only: "\n".join(pages)
extract_joined(pages) == Join(pages, <<NL>>)

\* extract_pdf_text: text = ""; for page in reader.pages: text += page + "\n"
extract_pdf_text(pages) ==
    LET Step(st, i) == [n |-> i, text |-> st.text \o pages[i] \o <<NL>>]
    IN  ForRange(Step, [n |-> 0, text |-> <<>>], 1, Len(pages)).text

\* ----------------------------------------------------------------- Chunker
\* Faulty variant: the separators without the final "", the split into characters
SeparatorsNoChar == << <<NL, NL>>, <<NL>>, <<32>> >>

\* RecursiveCharacterTextSplitter's default separators:
\* paragraph "\n\n", line "\n", word " ", character "".
Separators == << <<NL, NL>>, <<NL>>, <<32>>, <<>> >>

\* re.search(re.escape(sep), text) for a non-empty literal sep
Contains(text, sep) ==
    \E i \in 1..(Len(text) - Len(sep) + 1) : SubSeq(text, i, i + Len(sep) - 1) = sep

\* The starts of the matches of the literal sep in text, as re.split finds
\* them: scanned left to right, a match starting where the previous ended.
MatchStarts(text, sep) ==
    LET Step(st, i) ==
            IF /\ i >= st.n
               /\ i + Len(sep) - 1 <= Len(text)
               /\ SubSeq(text, i, i + Len(sep) - 1) = sep
            THEN [n |-> i + Len(sep), ms |-> Append(st.ms, i)]
            ELSE st
    IN  ForRange(Step, [n |-> 1, ms |-> <<>>], 1, Len(text)).ms

\* _split_text_with_regex(text, separator, keep_separator=True): the text
\* before the first match, then each separator with the text that follows
\* it; list(text) for the empty separator; empty pieces dropped.
SplitWithRegex(text, sep) ==
    IF sep = <<>> THEN [i \in 1..Len(text) |-> <<text[i]>>]
    ELSE LET ms == MatchStarts(text, sep)
             until(k) == IF k < Len(ms) THEN ms[k + 1] - 1 ELSE Len(text)
             head == IF ms = <<>> THEN text ELSE SubSeq(text, 1, ms[1] - 1)
             rest == [k \in 1..Len(ms) |-> SubSeq(text, ms[k], until(k))]
         IN  SelectSeq(<<head>> \o rest, LAMBDA s : s # <<>>)

\* _join_docs: separator.join(docs).strip(), None (here <<>>) when empty;
\* the callers append the result only when it is not None.
JoinDocs(docs, sep) == Strip(Join(docs, sep))

\* _merge_splits(splits, separator): st.cur is current_doc, st.n is total.
MergeSplits(splits, sep) ==
    LET sepLen == Len(sep)
        Emit(docs, cur) ==
            LET doc == JoinDocs(cur, sep)
            IN  IF doc # <<>> THEN Append(docs, doc) ELSE docs
        Over(st, len) ==
            st.n + len + (IF Len(st.cur) > 0 THEN sepLen ELSE 0) > CHUNK_SIZE
        Pop(st) ==
            [st EXCEPT !.n = st.n - (Len(st.cur[1]) + (IF Len(st.cur) > 1 THEN sepLen ELSE 0)),
                       !.cur = Tail(st.cur)]
        Step(st, i) ==
            LET d == splits[i]
                len == Len(d)
                Cond(s) == s.n > CHUNK_OVERLAP \/ (Over(s, len) /\ s.n > 0)
                flushed ==
                    IF Over(st, len) /\ Len(st.cur) > 0
                    THEN WhileLoop(Cond, Pop, [st EXCEPT !.docs = Emit(st.docs, st.cur)],
                                   Log2Up(Len(st.cur) + 1))
                    ELSE st
                cur == Append(flushed.cur, d)
            IN  [docs |-> flushed.docs, cur |-> cur,
                 n |-> flushed.n + len + (IF Len(cur) > 1 THEN sepLen ELSE 0)]
        end == ForRange(Step, [docs |-> <<>>, cur |-> <<>>, n |-> 0], 1, Len(splits))
    IN  Emit(end.docs, end.cur)

\* RecursiveCharacterTextSplitter._split_text(text, separators), with
\* keep_separator=True (so the merge separator is ""): st.good is
\* _good_splits, st.final is final_chunks.
RECURSIVE SplitText(_, _)
SplitText(text, separators) ==
    LET found == {i \in 1..Len(separators) :
                    separators[i] = <<>> \/ Contains(text, separators[i])}
        at == IF found = {} THEN Len(separators)
              ELSE CHOOSE i \in found : \A j \in found : i <= j
        separator == separators[at]
        new_separators ==
            IF found = {} \/ separator = <<>> THEN <<>>
            ELSE SubSeq(separators, at + 1, Len(separators))
        splits == SplitWithRegex(text, separator)
        Flush(st) ==
            IF st.good # <<>>
            THEN [st EXCEPT !.final = st.final \o MergeSplits(st.good, <<>>), !.good = <<>>]
            ELSE st
        Step(st, i) ==
            LET s == splits[i]
            IN  IF Len(s) < CHUNK_SIZE
                THEN [st EXCEPT !.n = i, !.good = Append(st.good, s)]
                ELSE LET f == Flush(st)
                     IN  [f EXCEPT !.n = i,
                                   !.final = IF new_separators = <<>>
                                             THEN Append(f.final, s)
                                             ELSE f.final \o SplitText(s, new_separators)]
    IN  Flush(ForRange(Step, [n |-> 0, final |-> <<>>, good |-> <<>>], 1, Len(splits))).final

\* create_chunks: RecursiveCharacterTextSplitter(chunk_size=CHUNK_SIZE,
\* chunk_overlap=CHUNK_OVERLAP).split_text(text)
create_chunks(text) == SplitText(text, Separators)

\* --------------------------------------------------------------- documents
\* A document is written as a sequence of tokens: a word of 1, 260, 499, 500
\* or 501 characters, a space, a newline, or the end of a page.  Every word
\* character of a document is a different code point (1000 + its place among
\* the document's characters), so the place of a chunk in the text can be
\* read off its first character.
Tokens == {"w1", "w260", "w499", "w500", "w501", "sp", "nl", "eop"}

Width(tok) ==
    CASE tok = "w1" -> 1
      [] tok = "w260" -> 260
      [] tok = "w499" -> 499
      [] tok = "w500" -> 500
      [] tok = "w501" -> 501
      [] tok = "eop" -> 0
      [] OTHER -> 1

\* The number of characters before token j.
RECURSIVE Offset(_, _)
Offset(toks, j) == IF j <= 1 THEN 0 ELSE Offset(toks, j - 1) + Width(toks[j - 1])

TokenText(toks, j) ==
    CASE toks[j] = "sp" -> <<32>>
      [] toks[j] = "nl" -> <<NL>>
      [] toks[j] = "eop" -> <<>>
      [] OTHER -> [i \in 1..Width(toks[j]) |-> 1000 + Offset(toks, j) + i]

\* The pages of a token sequence in which every page ends with "eop".
PagesOf(toks) ==
    LET ends == {j \in 1..Len(toks) : toks[j] = "eop"}
        first(e) == IF \E d \in ends : d < e
                    THEN 1 + CHOOSE d \in ends : d < e /\ \A c \in ends : c < e => c <= d
                    ELSE 1
        page(e) == Join([k \in 1..(e - first(e)) |-> TokenText(toks, first(e) + k - 1)], <<>>)
        nth(k) == CHOOSE e \in ends : Cardinality({d \in ends : d <= e}) = k
    IN  [k \in 1..Cardinality(ends) |-> page(nth(k))]

RECURSIVE TokenSeqs(_)
TokenSeqs(n) ==
    IF n = 0 THEN {<<>>}
    ELSE LET shorter == TokenSeqs(n - 1)
         IN  shorter \cup {Append(s, t) : s \in {x \in shorter : Len(x) = n - 1}, t \in Tokens}

\* A readable file of the given pages.
PdfOf(pages) == [exists |-> TRUE, bad |-> 0, pages |-> pages]

\* The documents of the text pipeline: every token sequence of at most
\* MaxTokens tokens that is empty or ends a page.
TokenDocs ==
    {PdfOf(PagesOf(toks)) : toks \in {s \in TokenSeqs(MaxTokens) : s = <<>> \/ s[Len(s)] = "eop"}}

\* The served manuals: a missing file, a file whose first page cannot be
\* decoded, a file of no pages, and one page of 0..MaxParas paragraphs
\* separated by blank lines.
ParaTokens(k) ==
    [j \in 1..(IF k = 0 THEN 1 ELSE 3 * k) |->
        IF k = 0 \/ j = 3 * k THEN "eop" ELSE IF j % 3 = 1 THEN "w260" ELSE "nl"]

ServedDocs ==
    {[exists |-> FALSE, bad |-> 0, pages |-> <<>>],
     [exists |-> TRUE, bad |-> 1, pages |-> PagesOf(ParaTokens(1))],
     PdfOf(<<>>)}
    \cup {PdfOf(PagesOf(ParaTokens(k))) : k \in 0..MaxParas}

\* ---------------------------------------------------------------- Embedder
\* embedder.encode(text).tolist() for the loaded model w: an opaque function
\* of the text alone.
Encode(w, text) ==
    <<(Len(text) + w * (IF text = <<>> THEN 0 ELSE text[1])) % (MaxCoord + 1)>>

\* ------------------------------------------------------------ Vector Index
\* Faulty variant: the ids count from 1, as with enumerate(chunks, 1)
StrOneBased(j) ==
    IF j + 1 < 10 THEN <<48 + j + 1>> ELSE <<48 + ((j + 1) \div 10), 48 + ((j + 1) % 10)>>

\* str(i) for i >= 0: the decimal digits, as code points.
RECURSIVE Str(_)
Str(i) == IF i < 10 THEN <<48 + i>> ELSE Str(i \div 10) \o <<48 + (i % 10)>>

\* Squared L2 distance, Chroma's default space.
RECURSIVE Dist(_, _)
Dist(a, b) ==
    IF a = <<>> THEN 0
    ELSE (a[1] - b[1]) * (a[1] - b[1]) + Dist(Tail(a), Tail(b))

\* collection.add(ids=[id], embeddings=[e], documents=[doc]): an id already
\* in the collection is refused.
CollectionAdd(coll, id, e, doc) ==
    IF \E k \in 1..Len(coll.entries) : coll.entries[k].id = id
    THEN [ok |-> FALSE, coll |-> coll]
    ELSE [ok |-> TRUE,
          coll |-> [coll EXCEPT !.entries =
                       Append(@, [id |-> id, embedding |-> e, document |-> doc])]]

\* collection.query(query_embeddings=[e], n_results=k): the possible results,
\* each the min(k, count) entries nearest to e, nearest first (entries at the
\* same distance in either order).
CollectionQuery(coll, e, k) ==
    LET n == Len(coll.entries)
        m == IF k < n THEN k ELSE n
        d(j) == Dist(coll.entries[j].embedding, e)
        Picks == {r \in [1..m -> 1..n] :
                    /\ \A a, b \in 1..m : a < b => r[a] # r[b] /\ d(r[a]) <= d(r[b])
                    /\ \A j \in 1..n :
                         (\A a \in 1..m : r[a] # j) => \A a \in 1..m : d(r[a]) <= d(j)}
    IN  {[ids |-> [a \in 1..m |-> coll.entries[r[a]].id],
          documents |-> [a \in 1..m |-> coll.entries[r[a]].document],
          distances |-> [a \in 1..m |-> d(r[a])]] : r \in Picks}

\* ---------------------------------------------------------- Prompt Builder
PromptHead ==
    <<89, 111, 117, 32, 97, 114, 101, 32, 83, 110, 97, 112, 32, 65, 115, 115,
      105, 115, 116, 97, 110, 116, 46, 10, 32, 32, 32, 32, 85, 115, 101, 32,
      116, 104, 101, 32, 102, 111, 108, 108, 111, 119, 105, 110, 103, 32,
      109, 97, 110, 117, 97, 108, 32, 99, 111, 110, 116, 101, 120, 116, 32,
      116, 111, 32, 97, 110, 115, 119, 101, 114, 58, 10, 10, 32, 32, 32, 32>>
PromptMid ==
    <<10, 10, 32, 32, 32, 32, 81, 117, 101, 115, 116, 105, 111, 110, 58, 32>>
PromptTail ==
    <<10, 32, 32, 32, 32, 65, 110, 115, 119, 101, 114, 58>>

\* build_prompt(context, question)
build_prompt(context, question) ==
    PromptHead \o context \o PromptMid \o question \o PromptTail

\* Faulty variant: every text is preceded by the blank line, the first one too,
\* and so is an empty result
ContextOfPadded(results) == <<NL, NL>> \o Join(results.documents, <<NL, NL>>)

\* "\n\n".join(results["documents"][0])
ContextOf(results) == Join(results.documents, <<NL, NL>>)

\* ------------------------------------------------------- Generation Client
\* Faulty variant: the reply is asked for as a stream
PayloadStreaming(prompt) ==
    [model |-> MODEL_NAME, prompt |-> prompt, temperature |-> TEMPERATURE,
     max_tokens |-> MAX_TOKENS, stream |-> TRUE]

\* The JSON body posted to OLLAMA_API_URL.
Payload(prompt) ==
    [model |-> MODEL_NAME, prompt |-> prompt, temperature |-> TEMPERATURE,
     max_tokens |-> MAX_TOKENS, stream |-> FALSE]

\* A JSON object is a sequence of <<key, value>> pairs with distinct keys.
HasKey(obj, key) == \E k \in 1..Len(obj) : obj[k][1] = key

\* dict.get(key, default)
Get(obj, key, default) ==
    IF HasKey(obj, key)
    THEN obj[CHOOSE k \in 1..Len(obj) : obj[k][1] = key][2]
    ELSE default

\* Faulty variant: the answer is read from the wrong field
AnswerOfWrongKey(result) == Get(result, "answer", <<>>)

\* result.get("response", "")
AnswerOf(result) == Get(result, "response", <<>>)

\* What the generation service may do with a request: not answer at all
\* (requests.post raises), answer with a body that is not JSON
\* (response.json() raises), with a JSON array (result.get raises), or with
\* a JSON object: {}, {"error": "no"}, {"response": ""}, {"response": "OK"}.
Replies ==
    {[kind |-> "unreachable", value |-> <<>>],
     [kind |-> "text", value |-> <<>>],
     [kind |-> "array", value |-> <<>>],
     [kind |-> "object", value |-> <<>>],
     [kind |-> "object", value |-> << <<"error", <<110, 111>> >> >>],
     [kind |-> "object", value |-> << <<"response", <<>> >> >>],
     [kind |-> "object", value |-> << <<"response", <<79, 75>> >> >>]}

\* The questions asked: "Hi" and "?".
Questions == {<<72, 105>>, <<63>>}

\* ------------------------------------------------------------------- state
VARIABLES
    pdf,          \* the file at PDF_PATH: whether it exists, its pages' texts,
                  \* and the page (0: none) whose text cannot be extracted
    weights,      \* which embedding model "all-MiniLM-L6-v2" names
    phase,        \* where module main2 is: the statement to run next, then
                  \* "serving" (imported, the app is served) or "failed"
    failure,      \* what ended the import, "" while nothing has
    manual_text,  \* module global manual_text
    chunks,       \* module global chunks
    embedder,     \* whether module global embedder is bound
    collection,   \* module global collection: whether it is bound, its entries
    i,            \* the build loop's index
    req,          \* the ask_model call on the event loop: its position, its
                  \* locals, the steps it took, what it posted, its response
    asked,        \* POST /ask requests received so far
    failures,     \* of which ended in an exception
    rootServed    \* GET / requests answered so far

vars == <<pdf, weights, phase, failure, manual_text, chunks, embedder, collection,
          i, req, asked, failures, rootServed>>

buildVars == <<manual_text, chunks, embedder, collection, i>>
serveVars == <<req, asked, failures, rootServed>>

NoResults == [ids |-> <<>>, documents |-> <<>>, distances |-> <<>>]
NoReply == [kind |-> "none", value |-> <<>>]

\* No call of ask_model: every local unbound.
NoReq ==
    [pc |-> "idle", question |-> <<>>, embedding |-> <<>>, results |-> NoResults,
     context |-> <<>>, prompt |-> <<>>, reply |-> NoReply,
     response |-> [status |-> 0, body |-> <<>>],
     steps |-> <<>>, posts |-> <<>>, failedAt |-> ""]

\* ------------------------------------------------------ the startup build
\* A statement of the module raising ends the import: nothing is served.
Fail(why) ==
    /\ phase' = "failed"
    /\ failure' = why

\* line 54: manual_text = extract_pdf_text(PDF_PATH); open() or a page's
\* extract_text() raising ends the import.
ExtractText ==
    /\ phase = "extract"
    /\ IF pdf.exists /\ pdf.bad = 0
       THEN /\ manual_text' = extract_pdf_text(pdf.pages)
            /\ phase' = "chunk"
            /\ UNCHANGED failure
       ELSE /\ Fail(IF pdf.exists THEN "parse" ELSE "io")
            /\ UNCHANGED manual_text
    /\ UNCHANGED <<pdf, weights, chunks, embedder, collection, i, serveVars>>

\* lines 55-56: chunks = create_chunks(manual_text)
CreateChunks ==
    /\ phase = "chunk"
    /\ chunks' = create_chunks(manual_text)
    /\ phase' = "embedder"
    /\ UNCHANGED <<pdf, weights, failure, manual_text, embedder, collection, i, serveVars>>

\* line 59: embedder = SentenceTransformer("all-MiniLM-L6-v2"); the model
\* may fail to load.
LoadEmbedder ==
    /\ phase = "embedder"
    /\ \E ok \in BOOLEAN :
         IF ok
         THEN /\ embedder' = TRUE
              /\ phase' = "collection"
              /\ UNCHANGED failure
         ELSE /\ Fail("embedder")
              /\ UNCHANGED embedder
    /\ UNCHANGED <<pdf, weights, manual_text, chunks, collection, i, serveVars>>

\* lines 62-63: collection = client.create_collection("snap_manual")
CreateCollection ==
    /\ phase = "collection"
    /\ collection' = [created |-> TRUE, entries |-> <<>>]
    /\ phase' = "insert"
    /\ i' = 0
    /\ UNCHANGED <<pdf, weights, failure, manual_text, chunks, embedder, serveVars>>

\* lines 66-72, one turn of the loop: embed chunks[i], add it under str(i).
\* (chunks is indexed from 1 here, from 0 in the code.)
InsertChunk ==
    /\ phase = "insert"
    /\ i < Len(chunks)
    /\ \E ok \in BOOLEAN :
         IF ~ok THEN Fail("encode") /\ UNCHANGED <<collection, i>>
         ELSE LET chunk == chunks[i + 1]
                  added == CollectionAdd(collection, Str(i), Encode(weights, chunk), chunk)
              IN  IF added.ok
                  THEN /\ collection' = added.coll
                       /\ i' = i + 1
                       /\ UNCHANGED <<phase, failure>>
                  ELSE Fail("duplicate") /\ UNCHANGED <<collection, i>>
    /\ UNCHANGED <<pdf, weights, manual_text, chunks, embedder, serveVars>>

\* line 74 and the end of the module: the import is over, the app is served.
BuildDone ==
    /\ phase = "insert"
    /\ i = Len(chunks)
    /\ phase' = "serving"
    /\ UNCHANGED <<pdf, weights, failure, buildVars, serveVars>>

\* ------------------------------------------------------------ the requests
\* Faulty variant: the app is served while the module is still being imported
AcceptingDuringBuild == phase # "failed"

\* The routes of lines 79 and 107 are served once the module is imported.
Accepting == phase = "serving"

\* Faulty variant: the exception is swallowed and an empty answer returned
RaiseSwallowed(r, step) ==
    [r EXCEPT !.pc = "done", !.failedAt = step,
              !.response = [status |-> 200, body |-> << <<"answer", <<>> >> >>]]

\* An exception leaving ask_model: the framework answers 500 and goes on.
Raise(r, step) ==
    [r EXCEPT !.pc = "done", !.failedAt = step,
              !.response = [status |-> 500, body |-> <<>>]]

\* line 80: ask_model is called with the request's body.  It is a coroutine
\* that never awaits, so the event loop runs one call at a time.
AskReceived ==
    /\ Accepting
    /\ req.pc \in {"idle", "done"}
    /\ asked < MaxAsk
    /\ \E q \in Questions : req' = [NoReq EXCEPT !.pc = "embed", !.question = q]
    /\ asked' = asked + 1
    /\ UNCHANGED <<pdf, weights, phase, failure, buildVars, failures, rootServed>>

\* line 82: embedding = embedder.encode(req.prompt).tolist()
EmbedQuestion ==
    /\ req.pc = "embed"
    /\ \E ok \in BOOLEAN :
         IF ok /\ embedder
         THEN /\ req' = [req EXCEPT !.pc = "query",
                                    !.embedding = Encode(weights, req.question),
                                    !.steps = Append(@, "embed")]
              /\ UNCHANGED failures
         ELSE /\ req' = Raise(req, "embed")
              /\ failures' = failures + 1
    /\ UNCHANGED <<pdf, weights, phase, failure, buildVars, asked, rootServed>>

\* Faulty variant: the handler also stores the question in the index
RetrieveAndStore ==
    /\ req.pc = "query"
    /\ collection.created
    /\ \E r \in CollectionQuery(collection, req.embedding, N_RESULTS) :
         req' = [req EXCEPT !.pc = "prompt", !.results = r, !.context = ContextOf(r),
                            !.steps = Append(@, "query")]
    /\ collection' = [collection EXCEPT !.entries =
                         Append(@, [id |-> req.question, embedding |-> req.embedding,
                                    document |-> req.question])]
    /\ UNCHANGED <<pdf, weights, phase, failure, manual_text, chunks, embedder, i,
                   asked, failures, rootServed>>

\* lines 85-89: results = collection.query(...); context = "\n\n".join(...)
Retrieve ==
    /\ req.pc = "query"
    /\ IF collection.created
       THEN /\ \E r \in CollectionQuery(collection, req.embedding, N_RESULTS) :
                 req' = [req EXCEPT !.pc = "prompt", !.results = r,
                                    !.context = ContextOf(r),
                                    !.steps = Append(@, "query")]
            /\ UNCHANGED failures
       ELSE /\ req' = Raise(req, "query")
            /\ failures' = failures + 1
    /\ UNCHANGED <<pdf, weights, phase, failure, buildVars, asked, rootServed>>

\* line 92: prompt = build_prompt(context, req.prompt)
BuildPrompt ==
    /\ req.pc = "prompt"
    /\ req' = [req EXCEPT !.pc = "post",
                          !.prompt = build_prompt(req.context, req.question),
                          !.steps = Append(@, "prompt")]
    /\ UNCHANGED <<pdf, weights, phase, failure, buildVars, asked, failures, rootServed>>

\* lines 95-102: response = requests.post(OLLAMA_API_URL, json=payload);
\* req.reply records what the service did, also when the post raises.
PostGenerate ==
    /\ req.pc = "post"
    /\ \E reply \in Replies :
         LET sent == [req EXCEPT !.posts = Append(@, Payload(req.prompt)),
                                 !.reply = reply]
         IN  IF reply.kind = "unreachable"
             THEN /\ req' = Raise(sent, "post")
                  /\ failures' = failures + 1
             ELSE /\ req' = [sent EXCEPT !.pc = "parse", !.steps = Append(@, "post")]
                  /\ UNCHANGED failures
    /\ UNCHANGED <<pdf, weights, phase, failure, buildVars, asked, rootServed>>

\* lines 103-105: result = response.json(); answer = result.get("response", "");
\* return {"answer": answer}
ReturnAnswer ==
    /\ req.pc = "parse"
    /\ IF req.reply.kind = "object"
       THEN /\ req' = [req EXCEPT !.pc = "done",
                                  !.response = [status |-> 200,
                                                body |-> << <<"answer", AnswerOf(req.reply.value)>> >>],
                                  !.steps = Append(@, "return")]
            /\ UNCHANGED failures
       ELSE /\ req' = Raise(req, "parse")
            /\ failures' = failures + 1
    /\ UNCHANGED <<pdf, weights, phase, failure, buildVars, asked, rootServed>>

\* lines 107-109: root() returns its message; it runs on a worker thread, at
\* any point of an ask_model call.
Root ==
    /\ Accepting
    /\ rootServed < MaxRoot
    /\ rootServed' = rootServed + 1
    /\ UNCHANGED <<pdf, weights, phase, failure, buildVars, req, asked, failures>>

\* ---------------------------------------------------------- specifications
InitWith(docs) ==
    /\ pdf \in docs
    /\ weights \in 0..MaxModel
    /\ phase = "extract"
    /\ failure = ""
    /\ manual_text = <<>>
    /\ chunks = <<>>
    /\ embedder = FALSE
    /\ collection = [created |-> FALSE, entries |-> <<>>]
    /\ i = 0
    /\ req = NoReq
    /\ asked = 0
    /\ failures = 0
    /\ rootServed = 0

Init == InitWith(ServedDocs)

Next ==
    \/ ExtractText
    \/ CreateChunks
    \/ LoadEmbedder
    \/ CreateCollection
    \/ InsertChunk
    \/ BuildDone
    \/ AskReceived
    \/ EmbedQuestion
    \/ Retrieve
    \/ BuildPrompt
    \/ PostGenerate
    \/ ReturnAnswer
    \/ Root

\* The process: the import of main2, then the service.
Spec == Init /\ [][Next]_vars

InitText ==
    /\ InitWith(TokenDocs)
    /\ weights = 0

NextText == ExtractText \/ CreateChunks

\* Extraction and chunking alone, over every document of TokenDocs.
SpecText == InitText /\ [][NextText]_vars

\* The manuals of the build alone: a missing file, an undecodable page, and
\* one page of 0..MaxBuildParas paragraphs.
BuildDocs ==
    {[exists |-> FALSE, bad |-> 0, pages |-> <<>>],
     [exists |-> TRUE, bad |-> 1, pages |-> PagesOf(ParaTokens(1))]}
    \cup {PdfOf(PagesOf(ParaTokens(k))) : k \in 0..MaxBuildParas}

InitBuild == InitWith(BuildDocs)

NextBuild ==
    \/ ExtractText
    \/ CreateChunks
    \/ LoadEmbedder
    \/ CreateCollection
    \/ InsertChunk
    \/ BuildDone

\* The import of main2 alone, up to the point where the app is served.
SpecBuild == InitBuild /\ [][NextBuild]_vars

\* ================================================================== claims
\* The steps of ask_model in the order of its statements.
StepOrder == <<"embed", "query", "prompt", "post", "return">>

Took(step) == \E k \in 1..Len(req.steps) : req.steps[k] = step

\* The index the build leaves for the chunks: entry k is chunk k under the
\* id str(k - 1).
BuiltEntries ==
    [k \in 1..Len(chunks) |->
        [id |-> Str(k - 1), embedding |-> Encode(weights, chunks[k]), document |-> chunks[k]]]

\* ------------------------------------------------------------------- C1
ServedOnlyWhenBuilt ==
    (req.pc # "idle" \/ asked > 0)
        => /\ phase = "serving"
           /\ embedder
           /\ collection.created
           /\ i = Len(chunks)
           /\ Len(collection.entries) = Len(chunks)

FailedBuildServesNothing ==
    phase = "failed" => req = NoReq /\ asked = 0 /\ rootServed = 0

\* C1: no /ask request is handled (no question embedded, no index query)
\* before the build has extracted, chunked, embedded and inserted every
\* chunk; a failed build is final and no request is ever handled after it.
C1_BuildBeforeServe ==
    /\ [](ServedOnlyWhenBuilt /\ FailedBuildServesNothing)
    /\ [][phase = "failed" => phase' = "failed"]_vars

C1_Witness ==
    /\ req.pc = "done"
    /\ req.response.status = 200
    /\ Len(collection.entries) >= 2

\* ------------------------------------------------------------------- C2
\* C2: once the build is over the index entries (id, vector, text) never
\* change, whatever /ask and / requests are handled and at whatever points
\* a / request falls within an /ask request.
C2_IndexReadOnly ==
    [][phase = "serving" => phase' = "serving" /\ collection' = collection]_vars

C2_Witness ==
    /\ asked >= 2
    /\ rootServed >= 1
    /\ req.pc = "done"
    /\ Len(collection.entries) >= 2

\* ------------------------------------------------------------------- C3
\* The number a string of decimal digits writes.
RECURSIVE DecimalValue(_)
DecimalValue(s) ==
    IF s = <<>> THEN 0
    ELSE 10 * DecimalValue(SubSeq(s, 1, Len(s) - 1)) + (s[Len(s)] - 48)

IsDecimal(s) ==
    /\ s # <<>>
    /\ \A k \in 1..Len(s) : s[k] \in 48..57
    /\ Len(s) > 1 => s[1] # 48

\* C3: the build inserts one entry per chunk, in document order, under the
\* id that writes the chunk's 0-based position in decimal; no insert meets
\* an id already present; after the build the index holds exactly the n
\* chunks under "0".."n-1", entry i with the text of chunk i.
C3_OneInsertPerChunk ==
    /\ failure # "duplicate"
    /\ collection.created =>
         /\ Len(collection.entries) = i
         /\ i <= Len(chunks)
         /\ \A k \in 1..Len(collection.entries) :
              /\ IsDecimal(collection.entries[k].id)
              /\ DecimalValue(collection.entries[k].id) = k - 1
              /\ collection.entries[k].document = chunks[k]
    /\ phase = "serving" => collection.created /\ Len(collection.entries) = Len(chunks)

C3_Witness ==
    /\ phase = "serving"
    /\ Len(chunks) = 11
    /\ Len(collection.entries) = 11
    /\ collection.entries[1].id = <<48>>
    /\ collection.entries[11].id = <<49, 48>>

\* ------------------------------------------------------------------- C4
\* C4: the retrieval step of an /ask request returns min(3, number of index
\* entries) texts, each the text of an index entry, nearest first, and no
\* entry left out is nearer than one returned.
C4_TopThree ==
    Took("query") =>
        LET r == req.results
            es == collection.entries
            n == Len(es)
            d(k) == Dist(es[k].embedding, req.embedding)
            at(a) == CHOOSE k \in 1..n : es[k].id = r.ids[a]
        IN  /\ Len(r.documents) = (IF n < 3 THEN n ELSE 3)
            /\ Len(r.ids) = Len(r.documents)
            /\ Len(r.distances) = Len(r.documents)
            /\ \A a \in 1..Len(r.documents) :
                 /\ \E k \in 1..n : es[k].id = r.ids[a]
                 /\ es[at(a)].document = r.documents[a]
                 /\ d(at(a)) = r.distances[a]
            /\ \A a, b \in 1..Len(r.documents) :
                 a < b => r.ids[a] # r.ids[b] /\ r.distances[a] <= r.distances[b]
            /\ \A k \in 1..n :
                 (\A a \in 1..Len(r.ids) : r.ids[a] # es[k].id)
                     => \A a \in 1..Len(r.distances) : r.distances[a] <= d(k)

C4_Witness ==
    /\ Took("query")
    /\ Len(collection.entries) = 4
    /\ Len(req.results.documents) = 3
    /\ req.results.distances[1] < req.results.distances[3]

\* ------------------------------------------------------------------- C5
AskStep == EmbedQuestion \/ Retrieve \/ BuildPrompt \/ PostGenerate \/ ReturnAnswer

\* C5: when the document yields no chunk the build ends with an empty
\* index, and every /ask request then retrieves nothing, builds its prompt
\* around an empty context, posts that prompt, and - unless the embedding
\* or the generation service itself fails - returns an answer; it is never
\* the empty index that fails it, and it never stops half way.
C5_EmptyDocument ==
    (phase = "serving" /\ chunks = <<>>) =>
        /\ collection.entries = <<>>
        /\ Took("query") => req.results.documents = <<>> /\ req.context = <<>>
        /\ Took("prompt") => req.prompt = PromptHead \o PromptMid \o req.question \o PromptTail
        /\ Took("post") => Len(req.posts) = 1 /\ req.posts[1].prompt = req.prompt
        /\ req.pc = "done" =>
             /\ req.failedAt \in {"", "embed", "post", "parse"}
             /\ req.failedAt = "" =>
                  /\ req.response.status = 200
                  /\ HasKey(req.response.body, "answer")
                  /\ req.steps = StepOrder
        /\ req.pc \notin {"idle", "done"} => ENABLED AskStep

C5_Witness ==
    /\ phase = "serving"
    /\ chunks = <<>>
    /\ Len(pdf.pages) = 1
    /\ req.pc = "done"
    /\ req.response.status = 200
    /\ req.context = <<>>

\* ------------------------------------------------------------------- C6
\* C6: when the generation service replies with a JSON object, the request
\* ends normally: with the value of the object's "response" field as the
\* answer when it has one, with the answer "" when it has none.
C6_MissingResponseIsEmpty ==
    (req.pc = "done" /\ req.reply.kind = "object") =>
        LET obj == req.reply.value
        IN  /\ req.failedAt = ""
            /\ req.response.status = 200
            /\ Len(req.response.body) = 1
            /\ req.response.body[1][1] = "answer"
            /\ \A k \in 1..Len(obj) :
                 obj[k][1] = "response" => req.response.body[1][2] = obj[k][2]
            /\ (\A k \in 1..Len(obj) : obj[k][1] # "response")
                 => req.response.body[1][2] = <<>>

C6_Witness ==
    /\ req.pc = "done"
    /\ req.reply.kind = "object"
    /\ req.reply.value # <<>>
    /\ ~HasKey(req.reply.value, "response")
    /\ req.response = [status |-> 200, body |-> << <<"answer", <<>> >> >>]

\* ------------------------------------------------------------------- C7
UpstreamFailed ==
    \/ req.failedAt # ""
    \/ req.reply.kind \in {"unreachable", "text", "array"}

\* C7: a request whose question cannot be embedded, or whose generation
\* call fails (no reply, a reply that is not JSON or not a JSON object),
\* ends with a failure response and no answer; the process goes on serving,
\* the index is as built, and the next request can be received.
C7_FailureStaysInRequest ==
    /\ (req.pc = "done" /\ UpstreamFailed) =>
          /\ req.failedAt \in {"embed", "post", "parse"}
          /\ req.response.status = 500
          /\ ~HasKey(req.response.body, "answer")
    /\ failures > 0 =>
          /\ phase = "serving"
          /\ collection = [created |-> TRUE, entries |-> BuiltEntries]
          /\ (req.pc = "done" /\ asked < MaxAsk) => ENABLED AskReceived
          /\ req.pc \notin {"idle", "done"} => ENABLED AskStep

C7_Witness ==
    /\ failures > 0
    /\ req.pc = "done"
    /\ req.response.status = 200
    /\ Len(req.results.documents) = 3

\* ------------------------------------------------------------------- C8
IsPrefix(s, t) == Len(s) <= Len(t) /\ s = SubSeq(t, 1, Len(s))

OnePass ==
    /\ IsPrefix(req.steps, StepOrder)
    /\ req.pc \in {"embed", "query", "prompt", "post", "parse"}
          => req.failedAt = "" /\ Len(req.steps) < Len(StepOrder)
             /\ req.pc = (IF Len(req.steps) = 4 THEN "parse" ELSE StepOrder[Len(req.steps) + 1])
    /\ Len(req.posts) <= 1
    /\ Len(req.posts) = 1 <=> (Took("post") \/ req.failedAt = "post")
    /\ req.response.status = 200 => req.steps = StepOrder /\ Len(req.posts) = 1
    /\ \A k \in 1..Len(req.posts) :
          /\ req.posts[k].temperature = <<2, 10>>
          /\ req.posts[k].max_tokens = 500
          /\ req.posts[k].stream = FALSE
          /\ req.posts[k].prompt = req.prompt

\* C8: an /ask request takes its steps once each and in the order embed,
\* query, build prompt, post, return; it posts to the generation service at
\* most once, exactly once when it returns an answer, always with
\* temperature 0.2, max_tokens 500 and stream off; and a new request starts
\* with nothing of the previous one.
C8_SinglePass ==
    /\ []OnePass
    /\ [][asked' # asked =>
            \E q \in Questions : req' = [NoReq EXCEPT !.pc = "embed", !.question = q]]_vars
    /\ [][/\ Len(req'.steps) >= Len(req.steps) => IsPrefix(req.steps, req'.steps)
          /\ Len(req'.steps) <= Len(req.steps) + 1
          /\ Len(req'.steps) < Len(req.steps) => asked' # asked]_vars

C8_Witness ==
    /\ asked = 2
    /\ req.pc = "done"
    /\ req.response.status = 200
    /\ req.steps = StepOrder
    /\ Len(req.posts) = 1

\* ------------------------------------------------------------------- C9
\* Where page k starts in the extracted text when each page is followed by
\* one newline.
RECURSIVE PageStart(_, _)
PageStart(pages, k) ==
    IF k <= 1 THEN 1 ELSE PageStart(pages, k - 1) + Len(pages[k - 1]) + 1

\* C9 as stated: the text is the pages joined with a newline between
\* consecutive pages.
C9_JoinedBySeparator ==
    phase \in {"chunk", "embedder"} => manual_text = Join(pdf.pages, <<NL>>)

\* C9 as amended: the text is every page, in order, each followed by one
\* newline (so it ends with a newline when there is a page, and is empty when
\* there is none).
C9_EachPageThenNewline ==
    phase \in {"chunk", "embedder"} =>
        LET pages == pdf.pages
            n == Len(pages)
        IN  /\ Len(manual_text) = PageStart(pages, n + 1) - 1
            /\ \A k \in 1..n :
                 /\ SubSeq(manual_text, PageStart(pages, k),
                           PageStart(pages, k) + Len(pages[k]) - 1) = pages[k]
                 /\ manual_text[PageStart(pages, k) + Len(pages[k])] = NL

C9_Witness ==
    /\ phase = "chunk"
    /\ Len(pdf.pages) = 2
    /\ Len(pdf.pages[1]) > 0
    /\ Len(pdf.pages[2]) > 0

\* ------------------------------------------------------------------ C10
\* Where a chunk starts in the text: every word character of a document of
\* TokenDocs occurs once, and a chunk starts with one.
PlaceOf(chunk) == CHOOSE p \in 1..Len(manual_text) : manual_text[p] = chunk[1]

\* C10: on every text the chunker returns chunks of 1 to 500 characters,
\* each a piece of the text, in the order of their places in it, also for a
\* text holding a run longer than 500 characters without any separator.
C10_ChunksBounded ==
    phase = "embedder" =>
         /\ \A k \in 1..Len(chunks) :
              /\ Len(chunks[k]) >= 1
              /\ Len(chunks[k]) <= 500
              /\ \E p \in 1..Len(manual_text) : manual_text[p] = chunks[k][1]
              /\ chunks[k] = SubSeq(manual_text, PlaceOf(chunks[k]),
                                    PlaceOf(chunks[k]) + Len(chunks[k]) - 1)
         /\ \A k \in 1..(Len(chunks) - 1) : PlaceOf(chunks[k]) < PlaceOf(chunks[k + 1])

C10_Witness ==
    /\ phase = "embedder"
    /\ Len(chunks) >= 2
    /\ Len(chunks[1]) = 500
    /\ \A p \in 1..500 : ~IsSpace(chunks[1][p])

====
